---- MODULE Spec2Model ----
(***************************************************************************)
(* ptgen (tools/firmware-utils/src/ptgen.c): the partition table           *)
(* generator.  main() reads the options one by one, then gen_ptable()      *)
(* (legacy MBR) or gen_gptable() (GPT) plans the partitions in a loop and  *)
(* writes the table with a fixed sequence of lseek()/write() pairs.        *)
(*                                                                         *)
(* Numbers: sector numbers and byte offsets are plain integers; the sizes  *)
(* drawn below keep every value far below 2^31.  The one unsigned value    *)
(* that wraps with these inputs (end - 33 and end * 512 - 16384 of         *)
(* gen_gptable, on a device shorter than the backup area) is kept as its   *)
(* two's-complement signed reading, and compared with U64Le.               *)
(* A guid_t is kept as [a, b15]: the leading 16 bits of its first field    *)
(* and its last byte b[15], the only byte the program changes.             *)
(* Options: -v (diagnostics only), -t, -S and -G are not drawn; type,      *)
(* signature and guid keep the values main gives them.  The argument of    *)
(* -p is drawn as the number of KB that to_kbytes returns.                 *)
(***************************************************************************)
EXTENDS Integers, Sequences, FiniteSets, TLC

VARIABLES
    pc,                             \* where the process is
    active, heads, sectors, kb_align,
    ignore_null_sized_partition, use_guid_partition_table,
    parts, filename,                \* the globals of lines 117-125
    part,                           \* main: number of -p options stored
    i, sect, end, ret,              \* locals of gen_ptable / gen_gptable
    pte, gpte, gpth,                \* the tables being built
    fd, pos, file,                  \* the output file: state, offset, writes
    out, err, status                \* stdout lines, last stderr message, exit

vars == <<pc, active, heads, sectors, kb_align, ignore_null_sized_partition,
          use_guid_partition_table, parts, filename, part, i, sect, end, ret,
          pte, gpte, gpth, fd, pos, file, out, err, status>>

conf == <<active, heads, sectors, kb_align, ignore_null_sized_partition,
          use_guid_partition_table, parts, filename, part>>

(* ------------------------------ program constants -------------------- *)

GPT_HEADER_SIZE == 92
GPT_ENTRY_SIZE == 128
GPT_ENTRY_NUM == 128
GPT_REVISION == 65536
\* 0x5452415020494645 as its two little-endian 32-bit halves
GPT_SIGNATURE == <<541673029, 1414676816>>
GPT_PARTITION_ESP == [a |-> 49450, b15 |-> 59]
GPT_PARTITION_DATA == [a |-> 60368, b15 |-> 199]
GPT_PARTITION_BIOS == [a |-> 8552, b15 |-> 73]
EXIT_SUCCESS == 0
EXIT_FAILURE == 1
\* main: signature = 0x5452574F ('OWRT'), guid = GUID_INIT(signature, ..., 0x00)
signature == 1414682447
guid == [a |-> 21586, b15 |-> 0]
\* main: unsigned char type = 0x83
type == 131
\* sizeof(struct pte), and the sectors of the GPT entry array
PTE_SIZE == 16
ENTRY_SECTORS == (GPT_ENTRY_SIZE * GPT_ENTRY_NUM) \div 512

(* ------------------------------ inputs drawn ------------------------- *)

\* Specification Spec draws every option from small sets and stores at
\* most MaxGptParts -p options in GPT mode.
MaxGptParts == 5
HeadsArgs == {4}
SectorsArgs == {32, 63}
ActiveArgs == {-1, 2, 5}
AlignArgs == {0, 16}
Sizes == {0, 48}
\* Specification SpecMany follows main up to the limit on -p options: one
\* geometry, every request of 64 KB, the last slot's request 64 KB or 0.
ManyHeads == {4}
ManySectors == {32}
ManySizes(k) == IF k = GPT_ENTRY_NUM - 1 THEN {0, 64} ELSE {64}
\* the values a byte of the stack that was never assigned may hold
Garbage == {0, 128}
\* marks a field that was never assigned
Indeterminate == -1

(* ------------------------------ helpers ------------------------------ *)

ZeroGuid == [a |-> 0, b15 |-> 0]
ZeroPte == [active |-> 0, chs_start |-> <<0, 0, 0>>, type |-> 0,
            chs_end |-> <<0, 0, 0>>, start |-> 0, length |-> 0]
ZeroGpte == [type |-> ZeroGuid, guid |-> ZeroGuid, start |-> 0, end |-> 0,
             attr |-> 0, name |-> 0]
NoErr == [msg |-> "", arg |-> 0]

RECURSIVE BitAnd(_, _)
BitAnd(x, y) ==
    IF x = 0 \/ y = 0 THEN 0
    ELSE (x % 2) * (y % 2) + 2 * BitAnd(x \div 2, y \div 2)

BitOr(x, y) == x + y - BitAnd(x, y)

\* unsigned 64-bit <= on the signed reading of the two values
U64Le(x, y) ==
    IF (x < 0) = (y < 0) THEN x <= y ELSE y < 0

\* convert the sector number into a CHS value (lines 165-180)
to_chs(s) ==
    LET sc == (s % sectors) + 1
        h  == (s \div sectors) % heads
        c  == (s \div sectors) \div heads
    IN  <<h % 256, BitOr(sc, BitAnd(c \div 4, 192)) % 256, BitAnd(c, 255)>>

\* a variant of round_to_cyl that leaves a sector on a cylinder boundary
\* where it is
round_to_cyl_ceil(s) ==
    LET cyl_size == heads * sectors
    IN  ((s + cyl_size - 1) \div cyl_size) * cyl_size

\* round the sector number up to the next cylinder (lines 183-188)
round_to_cyl(s) ==
    LET cyl_size == heads * sectors
    IN  s + cyl_size - (s % cyl_size)

\* round the sector number up to the kb_align boundary (lines 191-193)
round_to_kb(s) == ((s - 1) \div kb_align + 1) * kb_align

(* ------------------------------ CRC ---------------------------------- *)

\* The checksum register.  cyg_crc.h is not part of the sources at hand: the
\* table-driven CRC-32 is kept as an accumulation over the words of the
\* buffer, in order, in a 16-bit register, so that the result depends on the
\* seed and on every word of the buffer.
CrcMod == 65536

\* the register after the words lo..hi of the buffer
RECURSIVE crc_range(_, _, _, _)
crc_range(crc, buf, lo, hi) ==
    IF crc < 0 \/ lo > hi THEN crc
    ELSE IF lo = hi THEN (crc * 31 + (buf[lo] % CrcMod) + 1) % CrcMod
    ELSE LET mid == (lo + hi) \div 2
         IN  crc_range(crc_range(crc, buf, lo, mid), buf, mid + 1, hi)

cyg_crc32_accumulate(crc, buf) == crc_range(crc, buf, 1, Len(buf))

\* Compute a CRC for guid partition table (lines 196-199):
\* cyg_crc32_accumulate(~0L, buf, len) ^ ~0L
gpt_crc32(buf) == (CrcMod - 1) - cyg_crc32_accumulate(CrcMod - 1, buf)

\* the 92 bytes of a struct gpth, field by field (lines 89-104)
HeaderWords(h) ==
    <<h.signature[1], h.signature[2], h.revision, h.size, h.crc32, h.reserved,
      h.self, h.alternate, h.first_usable, h.last_usable,
      h.disk_guid.a, h.disk_guid.b15, h.first_entry, h.entry_num,
      h.entry_size, h.entry_crc32>>

\* the bytes of one struct gpte, field by field (lines 107-114)
EntryWords(e) ==
    <<e.type.a, e.type.b15, e.guid.a, e.guid.b15, e.start, e.end, e.attr,
      e.name>>

\* the bytes of the entries lo..hi of the array gpte[GPT_ENTRY_NUM]
RECURSIVE RangeWords(_, _, _)
RangeWords(t, lo, hi) ==
    IF lo = hi THEN EntryWords(t[lo])
    ELSE LET mid == (lo + hi) \div 2
         IN  RangeWords(t, lo, mid) \o RangeWords(t, mid + 1, hi)

ArrayWords(t) == RangeWords(t, 0, GPT_ENTRY_NUM - 1)

(* ------------------------------ construction ------------------------- *)

\* the initialisers of the globals (lines 117-125) and of main (447-452)
Init ==
    /\ pc = "getopt"
    /\ active = 1
    /\ heads = -1
    /\ sectors = -1
    /\ kb_align = 0
    /\ ignore_null_sized_partition = FALSE
    /\ use_guid_partition_table = FALSE
    /\ parts = <<>>
    /\ filename = FALSE
    /\ part = 0
    /\ i = 0
    /\ sect = 0
    /\ end = 0
    /\ ret = 0
    /\ pte = <<>>
    /\ gpte = <<>>
    /\ gpth = <<>>
    /\ fd = "none"
    /\ pos = 0
    /\ file = <<>>
    /\ out = <<>>
    /\ err = NoErr
    /\ status = EXIT_SUCCESS

(* ------------------------------ main: the options -------------------- *)

run == <<i, sect, end, ret, pte, gpte, gpth, fd, pos, file, out>>

\* exit(EXIT_FAILURE) with a message on stderr
Die(msg, arg) ==
    /\ err' = [msg |-> msg, arg |-> arg]
    /\ status' = EXIT_FAILURE
    /\ pc' = "exit"

\* case 'o' (lines 456-458)
OptO ==
    /\ pc = "getopt"
    /\ filename' = TRUE
    /\ UNCHANGED <<pc, active, heads, sectors, kb_align,
                   ignore_null_sized_partition, use_guid_partition_table,
                   parts, part, run, err, status>>

\* case 'n' (lines 462-464)
OptN ==
    /\ pc = "getopt"
    /\ ignore_null_sized_partition' = TRUE
    /\ UNCHANGED <<pc, active, heads, sectors, kb_align, filename,
                   use_guid_partition_table, parts, part, run, err, status>>

\* case 'g' (lines 465-467)
OptG ==
    /\ pc = "getopt"
    /\ use_guid_partition_table' = TRUE
    /\ UNCHANGED <<pc, active, heads, sectors, kb_align, filename,
                   ignore_null_sized_partition, parts, part, run, err, status>>

\* case 'h' (lines 468-470)
OptH(h) ==
    /\ pc = "getopt"
    /\ heads' = h
    /\ UNCHANGED <<pc, active, sectors, kb_align, filename,
                   ignore_null_sized_partition, use_guid_partition_table,
                   parts, part, run, err, status>>

\* case 's' (lines 471-473)
OptS(s) ==
    /\ pc = "getopt"
    /\ sectors' = s
    /\ UNCHANGED <<pc, active, heads, kb_align, filename,
                   ignore_null_sized_partition, use_guid_partition_table,
                   parts, part, run, err, status>>

\* the test of case 'p' (line 475)
TooMany ==
    \/ part > GPT_ENTRY_NUM - 1
    \/ (use_guid_partition_table = FALSE /\ part > 3)

\* case 'p', refused (lines 475-478)
OptPTooMany ==
    /\ pc = "getopt"
    /\ TooMany
    /\ Die("Too many partitions", 0)
    /\ UNCHANGED <<conf, run>>

\* case 'p', stored (lines 479-481); cap bounds the options drawn
OptP(size, cap) ==
    /\ pc = "getopt"
    /\ ~TooMany
    /\ part < cap
    /\ parts' = [k \in 0..part |->
                    IF k < part THEN parts[k]
                    ELSE [size |-> size, type |-> type]]
    /\ part' = part + 1
    /\ UNCHANGED <<pc, active, heads, sectors, kb_align, filename,
                   ignore_null_sized_partition, use_guid_partition_table,
                   run, err, status>>

\* the range test of case 'a' (lines 487-488)
CoerceActive(a) == IF (a < 0) \/ (a > 4) THEN 0 ELSE a

\* case 'a' (lines 485-489)
OptA(a) ==
    /\ pc = "getopt"
    /\ active' = CoerceActive(a)
    /\ UNCHANGED <<pc, heads, sectors, kb_align, filename,
                   ignore_null_sized_partition, use_guid_partition_table,
                   parts, part, run, err, status>>

\* case 'l' (lines 490-492)
OptL(l) ==
    /\ pc = "getopt"
    /\ kb_align' = l * 2
    /\ UNCHANGED <<pc, active, heads, sectors, filename,
                   ignore_null_sized_partition, use_guid_partition_table,
                   parts, part, run, err, status>>

\* after the options: usage() (lines 508-510)
Usage ==
    /\ pc = "getopt"
    /\ \E argc \in {0, 1} :
          argc # 0 \/ heads <= 0 \/ sectors <= 0 \/ ~filename
    /\ Die("Usage", 0)
    /\ UNCHANGED <<conf, run>>

\* after the options: the encoder is entered (lines 512-516), with the
\* initialisers of its locals (lines 239-242, 305-320)
Dispatch ==
    /\ pc = "getopt"
    /\ heads > 0 /\ sectors > 0 /\ filename
    /\ i' = 0
    /\ sect' = 0
    /\ ret' = -1
    /\ IF use_guid_partition_table
       THEN /\ pc' = "gpt_loop"
            /\ gpte' = [k \in 0..(GPT_ENTRY_NUM - 1) |-> ZeroGpte]
            /\ gpth' = [signature |-> GPT_SIGNATURE, revision |-> GPT_REVISION,
                        size |-> GPT_HEADER_SIZE, crc32 |-> 0, reserved |-> 0,
                        self |-> 1, alternate |-> 0,
                        first_usable |-> ENTRY_SECTORS + 2, last_usable |-> 0,
                        disk_guid |-> guid, first_entry |-> 2,
                        entry_num |-> GPT_ENTRY_NUM,
                        entry_size |-> GPT_ENTRY_SIZE, entry_crc32 |-> 0]
            /\ pte' = [k \in {0} |-> [ZeroPte EXCEPT !.active = Indeterminate]]
       ELSE /\ pc' = "pt_loop"
            /\ pte' = [k \in 0..3 |-> ZeroPte]
            /\ UNCHANGED <<gpte, gpth>>
    /\ UNCHANGED <<conf, end, fd, pos, file, out, err, status>>

(* ------------------------------ the layout loop ---------------------- *)

\* a variant of plan_start that forgets the cursor
plan_start_fixed(cur) ==
    IF kb_align # 0 THEN round_to_kb(sectors) ELSE sectors

\* start = sect + sectors; if (kb_align != 0) start = round_to_kb(start);
\* (lines 254-256 and 328-330)
plan_start(cur) ==
    LET s == cur + sectors
    IN  IF kb_align # 0 THEN round_to_kb(s) ELSE s

\* a variant of plan_end that never rounds to the cylinder
plan_end_unrounded(start, size) == start + size * 2

\* sect = start + parts[i].size * 2; if (kb_align == 0) sect = round_to_cyl(sect);
\* (lines 259-261 and 333-335)
plan_end(start, size) ==
    LET e == start + size * 2
    IN  IF kb_align = 0 THEN round_to_cyl(e) ELSE e

\* a variant of active_flag that takes the active slot as 0-based
active_flag_zero_based(k) == IF k = active THEN 128 ELSE 0

\* pte[i].active (line 251)
active_flag(k) == IF (k + 1) = active THEN 128 ELSE 0

\* gpte[i].type (lines 339-343)
gpt_type(k) ==
    IF parts[k].type = 239 \/ (k + 1) = active
    THEN GPT_PARTITION_ESP ELSE GPT_PARTITION_DATA

\* guid.b[15] += n on a copy of the disk guid (lines 337-338, 354-355)
guid_plus(n) == [guid EXCEPT !.b15 = (guid.b15 + n) % 256]

\* the two printf of a planned partition (lines 269-270, 347-348)
Printed(start, len) == out \o <<start * 512, len * 512>>

\* a request of size 0 with -n: continue (lines 244-246, 322-324)
LoopSkip(at) ==
    /\ pc = at
    /\ i < part
    /\ parts[i].size = 0
    /\ ignore_null_sized_partition
    /\ i' = i + 1
    /\ UNCHANGED <<pc, conf, sect, end, ret, pte, gpte, gpth, fd, pos, file,
                   out, err, status>>

\* a request of size 0 without -n: return -1 (lines 244-249, 322-327)
LoopInvalid(at) ==
    /\ pc = at
    /\ i < part
    /\ parts[i].size = 0
    /\ ~ignore_null_sized_partition
    /\ Die("Invalid size in partition", i)
    /\ UNCHANGED <<conf, run>>

(* ------------------------------ the output file ---------------------- *)

\* lseek(fd, off, SEEK_SET): a negative offset is refused and the position
\* stays where the last write left it
Seek(off) == IF off >= 0 THEN off ELSE pos

\* open(filename, O_WRONLY|O_CREAT|O_TRUNC) and its failure
\* (lines 273-276, 370-373)
Open(at, next) ==
    /\ pc = at
    /\ i >= part
    /\ \E ok \in BOOLEAN :
          IF ok
          THEN /\ fd' = "open"
               /\ pos' = 0
               /\ file' = <<>>
               /\ pc' = next
               /\ UNCHANGED <<err, status>>
          ELSE /\ Die("Can't open output file", 0)
               /\ UNCHANGED <<fd, pos, file>>
    /\ UNCHANGED <<conf, i, sect, end, ret, pte, gpte, gpth, out>>

\* lseek + write of len bytes; a short write goes to fail: close, return ret.
\* The last write of a function is followed by ret = 0, close, return.
Write(at, off, len, what, data, next) ==
    /\ pc = at
    /\ fd = "open"
    /\ \E ok \in BOOLEAN :
          /\ file' = Append(file, [off |-> Seek(off), len |-> len,
                                   what |-> what, data |-> data, full |-> ok])
          /\ IF ok
             THEN /\ pos' = Seek(off) + len
                  /\ IF next = "exit"
                     THEN /\ ret' = 0
                          /\ fd' = "closed"
                          /\ status' = EXIT_SUCCESS
                     ELSE UNCHANGED <<ret, fd, status>>
                  /\ pc' = next
                  /\ err' = err
             ELSE /\ pos' = Seek(off)
                  /\ fd' = "closed"
                  /\ Die("write failed.", 0)
                  /\ ret' = ret
    /\ UNCHANGED <<conf, i, sect, end, pte, gpte, gpth, out>>

(* ------------------------------ gen_ptable --------------------------- *)

PtSkip == LoopSkip("pt_loop")

PtInvalid == LoopInvalid("pt_loop")

\* one pass of the loop for a request of size > 0 (lines 251-270)
PtPlan ==
    /\ pc = "pt_loop"
    /\ i < part
    /\ parts[i].size # 0
    /\ LET start == plan_start(sect)
           nsect == plan_end(start, parts[i].size)
           len   == nsect - start
       IN  /\ pte' = [pte EXCEPT ![i] =
                        [active |-> active_flag(i),
                         chs_start |-> to_chs(start),
                         type |-> parts[i].type,
                         chs_end |-> to_chs(start + len - 1),
                         start |-> start,
                         length |-> len]]
           /\ sect' = nsect
           /\ out' = Printed(start, len)
    /\ i' = i + 1
    /\ UNCHANGED <<pc, conf, end, ret, gpte, gpth, fd, pos, file, err, status>>

PtOpen == Open("pt_loop", "pt_sig")

\* lines 278-282
PtWriteSig == Write("pt_sig", 440, 4, "signature", signature, "pt_table")

\* lines 284-288
PtWriteTable == Write("pt_table", 446, PTE_SIZE * 4, "pte", pte, "pt_magic")

\* lines 289-298
PtWriteMagic == Write("pt_magic", 510, 2, "magic", <<85, 170>>, "exit")

(* ------------------------------ gen_gptable -------------------------- *)

GptSkip == LoopSkip("gpt_loop")

GptInvalid == LoopInvalid("gpt_loop")

\* one pass of the loop for a request of size > 0 (lines 328-348)
GptPlan ==
    /\ pc = "gpt_loop"
    /\ i < part
    /\ parts[i].size # 0
    /\ LET start == plan_start(sect)
           nsect == plan_end(start, parts[i].size)
       IN  /\ gpte' = [gpte EXCEPT ![i] =
                         [@ EXCEPT !.start = start,
                                   !.end = nsect - 1,
                                   !.guid = guid_plus(i + 1),
                                   !.type = gpt_type(i)]]
           /\ sect' = nsect
           /\ out' = Printed(start, nsect - start)
    /\ i' = i + 1
    /\ UNCHANGED <<pc, conf, end, ret, pte, gpth, fd, pos, file, err, status>>

\* a variant of bios_end that takes the first partition's sector too
bios_end_inclusive == IF kb_align # 0 THEN round_to_kb(sectors) ELSE sectors

\* gpte[GPT_ENTRY_NUM - 1].end (line 352)
bios_end == (IF kb_align # 0 THEN round_to_kb(sectors) ELSE sectors) - 1

\* after the loop: the entry of the BIOS boot partition (lines 351-355)
GptBios ==
    /\ pc = "gpt_loop"
    /\ i >= part
    /\ gpte' = [gpte EXCEPT ![GPT_ENTRY_NUM - 1] =
                  [@ EXCEPT !.start = ENTRY_SECTORS + 2,
                            !.end = bios_end,
                            !.type = GPT_PARTITION_BIOS,
                            !.guid = guid_plus(GPT_ENTRY_NUM)]]
    /\ pc' = "gpt_hdr"
    /\ UNCHANGED <<conf, i, sect, end, ret, pte, gpth, fd, pos, file, out,
                   err, status>>

\* end = sect + sectors - 1 (line 357)
last_lba == sect + sectors - 1

\* the header fields set after the loop (lines 365-367); e is end
primary_header(h, e) ==
    [h EXCEPT !.last_usable = e - ENTRY_SECTORS - 1,
              !.alternate = e,
              !.entry_crc32 = gpt_crc32(ArrayWords(gpte))]

\* the protective MBR entry and the header fields (lines 357-367)
GptHeader ==
    /\ pc = "gpt_hdr"
    /\ end' = last_lba
    /\ pte' = [pte EXCEPT ![0] =
                 [@ EXCEPT !.type = 238,
                           !.start = 1,
                           !.length = last_lba,
                           !.chs_start = to_chs(1),
                           !.chs_end = to_chs(last_lba)]]
    /\ gpth' = primary_header(gpth, last_lba)
    /\ pc' = "gpt_crc"
    /\ UNCHANGED <<conf, i, sect, ret, gpte, fd, pos, file, out, err, status>>

\* gpth.crc32 = gpt_crc32((char *)&gpth, GPT_HEADER_SIZE) (lines 368, 411)
with_crc(h) == [h EXCEPT !.crc32 = gpt_crc32(HeaderWords(h))]

\* line 368
GptCrc ==
    /\ pc = "gpt_crc"
    /\ gpth' = with_crc(gpth)
    /\ pc' = "gpt_open"
    /\ UNCHANGED <<conf, i, sect, end, ret, pte, gpte, fd, pos, file, out,
                   err, status>>

GptOpen == Open("gpt_open", "gpt_sig")

\* lines 375-379
GptWriteSig == Write("gpt_sig", 440, 4, "signature", signature, "gpt_pmbr")

\* lines 381-385; struct pte pte of line 304 is not initialised and its
\* active byte is never assigned: the byte written is whatever the stack held
GptWritePmbr ==
    \E g \in Garbage :
       Write("gpt_pmbr", 446, PTE_SIZE, "pte",
             [pte EXCEPT ![0].active = g], "gpt_magic")

\* lines 387-391
GptWriteMagic == Write("gpt_magic", 510, 2, "magic", <<85, 170>>, "gpt_primary")

\* lines 393-397
GptWritePrimary ==
    Write("gpt_primary", 512, GPT_HEADER_SIZE, "gpth", gpth, "gpt_entries")

\* lines 399-403
GptWriteEntries ==
    Write("gpt_entries", 1024, GPT_ENTRY_SIZE * GPT_ENTRY_NUM, "gpte", gpte,
          "gpt_swap")

\* a variant of backup_header that keeps the CRC of the first header in place
backup_header_stale_crc(h) ==
    [h EXCEPT !.self = h.alternate,
              !.alternate = h.self,
              !.first_entry = end - ENTRY_SECTORS]

\* the second header before its CRC (lines 406-410)
backup_header(h) ==
    [h EXCEPT !.self = h.alternate,
              !.alternate = h.self,
              !.first_entry = end - ENTRY_SECTORS,
              !.crc32 = 0]

\* lines 406-410
GptSwap ==
    /\ pc = "gpt_swap"
    /\ gpth' = backup_header(gpth)
    /\ pc' = "gpt_crc2"
    /\ UNCHANGED <<conf, i, sect, end, ret, pte, gpte, fd, pos, file, out,
                   err, status>>

\* line 411
GptCrc2 ==
    /\ pc = "gpt_crc2"
    /\ gpth' = with_crc(gpth)
    /\ pc' = "gpt_bentries"
    /\ UNCHANGED <<conf, i, sect, end, ret, pte, gpte, fd, pos, file, out,
                   err, status>>

\* lines 413-417
GptWriteBackupEntries ==
    Write("gpt_bentries", end * 512 - GPT_ENTRY_SIZE * GPT_ENTRY_NUM,
          GPT_ENTRY_SIZE * GPT_ENTRY_NUM, "gpte", gpte, "gpt_backup")

\* lines 419-423
GptWriteBackup ==
    Write("gpt_backup", end * 512, GPT_HEADER_SIZE, "gpth", gpth, "gpt_tail")

\* lines 425-434
GptWriteTail == Write("gpt_tail", end * 512 + 511, 1, "zero", <<0>>, "exit")

(* ------------------------------ specifications ----------------------- *)

Encode ==
    \/ PtSkip \/ PtInvalid \/ PtPlan \/ PtOpen
    \/ PtWriteSig \/ PtWriteTable \/ PtWriteMagic
    \/ GptSkip \/ GptInvalid \/ GptPlan \/ GptBios \/ GptHeader \/ GptCrc
    \/ GptOpen \/ GptWriteSig \/ GptWritePmbr \/ GptWriteMagic
    \/ GptWritePrimary \/ GptWriteEntries \/ GptSwap \/ GptCrc2
    \/ GptWriteBackupEntries \/ GptWriteBackup \/ GptWriteTail

\* the cap on stored -p options: none in legacy mode, where line 475 refuses
\* the fifth
Cap == IF use_guid_partition_table THEN MaxGptParts ELSE 4

Next ==
    \/ OptO \/ OptN \/ OptG
    \/ \E h \in HeadsArgs : OptH(h)
    \/ \E s \in SectorsArgs : OptS(s)
    \/ \E a \in ActiveArgs : OptA(a)
    \/ \E l \in AlignArgs : OptL(l)
    \/ \E size \in Sizes : OptP(size, Cap)
    \/ OptPTooMany
    \/ Usage \/ Dispatch
    \/ Encode

Spec == Init /\ [][Next]_vars

NextMany ==
    \/ OptO \/ OptN \/ OptG
    \/ \E h \in ManyHeads : OptH(h)
    \/ \E s \in ManySectors : OptS(s)
    \/ \E size \in ManySizes(part) : OptP(size, GPT_ENTRY_NUM)
    \/ OptPTooMany
    \/ Usage \/ Dispatch
    \/ Encode

SpecMany == Init /\ [][NextMany]_vars

(* ------------------------------ stages ------------------------------- *)

\* main left before an encoder finished its loop
EarlyExit ==
    pc = "exit" /\ err.msg \in {"Usage", "Too many partitions",
                                "Invalid size in partition"}

\* an encoder was entered
Entered == pc # "getopt" /\ ~(pc = "exit" /\ err.msg \in {"Usage", "Too many partitions"})

\* gen_ptable has left its loop
PtPlanned == ~use_guid_partition_table /\ Entered /\ ~EarlyExit /\ i >= part

\* gen_gptable has left its loop and set the last entry (line 355 passed)
BiosSet ==
    use_guid_partition_table /\ Entered /\ ~EarlyExit /\ pc # "gpt_loop"

\* gen_gptable has set the header fields (line 367 passed)
HeaderSet == BiosSet /\ pc # "gpt_hdr"

\* the requests among the first n that are not skipped
Retained(n) == {k \in 0..(n - 1) : parts[k].size # 0}

\* the table slot of request k
Slot(k) == IF use_guid_partition_table THEN gpte[k] ELSE pte[k]

ZeroSlot == IF use_guid_partition_table THEN ZeroGpte ELSE ZeroPte

\* the full writes of one kind in the output file
Written(what) == {k \in 1..Len(file) : file[k].what = what /\ file[k].full}

(* ------------------------------ claims ------------------------------- *)

\* C1: in both modes the planned partitions, in request order, have
\* strictly increasing start sectors, and each starts at or after the end
\* (start + length) of the one before.  out holds, for each retained
\* request, its start and its length in bytes.
C1_PlannedIncreasing ==
    \A k \in 1..((Len(out) \div 2) - 1) :
       /\ out[2 * k + 1] > out[2 * k - 1]
       /\ out[2 * k + 1] >= out[2 * k - 1] + out[2 * k]

C1_Witness ==
    /\ pc = "exit" /\ status = EXIT_SUCCESS
    /\ use_guid_partition_table /\ kb_align # 0
    /\ Len(out) >= 6 /\ part > Len(out) \div 2

\* C2 (as claimed): a request of size 0 without -n stops the encoder with
\* "Invalid size" naming the first such index, before the file is opened;
\* with -n it prints nothing, leaves its slot all-zero and the cursor where
\* it was, and every retained request sits in the slot of its own index.
C2_ZeroSize ==
    /\ (pc = "exit" /\ err.msg = "Invalid size in partition") =>
          /\ ~ignore_null_sized_partition
          /\ err.arg \in 0..(part - 1)
          /\ parts[err.arg].size = 0
          /\ \A k \in 0..(err.arg - 1) : parts[k].size # 0
          /\ fd = "none" /\ file = <<>>
    /\ Entered =>
          /\ Len(out) = 2 * Cardinality(Retained(i))
          /\ sect * 512 = IF out = <<>> THEN 0
                          ELSE out[Len(out) - 1] + out[Len(out)]
          /\ \A k \in 0..(i - 1) :
                IF parts[k].size = 0
                THEN ignore_null_sized_partition /\ Slot(k) = ZeroSlot
                ELSE Slot(k).start * 512
                        = out[2 * Cardinality(Retained(k + 1)) - 1]

\* C2, for the requests of every index but the last of the GPT array
C2_BelowLastSlot ==
    /\ (pc = "exit" /\ err.msg = "Invalid size in partition") =>
          /\ ~ignore_null_sized_partition
          /\ err.arg \in 0..(part - 1)
          /\ parts[err.arg].size = 0
          /\ \A k \in 0..(err.arg - 1) : parts[k].size # 0
          /\ fd = "none" /\ file = <<>>
    /\ Entered =>
          /\ Len(out) = 2 * Cardinality(Retained(i))
          /\ sect * 512 = IF out = <<>> THEN 0
                          ELSE out[Len(out) - 1] + out[Len(out)]
          /\ \A k \in 0..(i - 1) :
                k # GPT_ENTRY_NUM - 1 =>
                   IF parts[k].size = 0
                   THEN ignore_null_sized_partition /\ Slot(k) = ZeroSlot
                   ELSE Slot(k).start * 512
                           = out[2 * Cardinality(Retained(k + 1)) - 1]

\* C3 (as claimed): at most 4 requests are accepted in legacy mode and at
\* most 127 in GPT mode; the refusal comes before an encoder runs and before
\* the file is touched; no request is stored in GPT slot 128 (index 127).
C3_PartitionLimit ==
    /\ part <= (IF use_guid_partition_table THEN GPT_ENTRY_NUM - 1 ELSE 4)
    /\ (pc = "exit" /\ err.msg = "Too many partitions") =>
          fd = "none" /\ file = <<>> /\ pte = <<>> /\ out = <<>>

\* C3, with the limit main enforces in GPT mode
C3_LimitEnforced ==
    /\ part <= (IF use_guid_partition_table THEN GPT_ENTRY_NUM ELSE 4)
    /\ (pc = "exit" /\ err.msg = "Too many partitions") =>
          fd = "none" /\ file = <<>> /\ pte = <<>> /\ out = <<>>

\* the CRC field of a header is the CRC of the header with the field zeroed
CrcOk(h) == h.crc32 = gpt_crc32(HeaderWords([h EXCEPT !.crc32 = 0]))

\* C4: each header CRC is computed last.  When line 368 has run the CRC
\* field is the CRC of the header as it stands with that field 0, and the
\* header is written unchanged; before line 411 the pointers are swapped,
\* first_entry is set and the field is 0 again.  In a finished image both
\* written headers carry the CRC of their own 92 bytes (field zeroed) and of
\* the entry array written with them.
C4_CrcLast ==
    /\ pc \in {"gpt_open", "gpt_sig", "gpt_pmbr", "gpt_magic", "gpt_primary",
               "gpt_entries", "gpt_swap", "gpt_bentries", "gpt_backup",
               "gpt_tail"} => CrcOk(gpth)
    /\ pc = "gpt_crc" => gpth.crc32 = 0
    /\ pc = "gpt_crc2" =>
          /\ gpth.crc32 = 0
          /\ \A k \in Written("gpth") :
                /\ gpth.self = file[k].data.alternate
                /\ gpth.alternate = file[k].data.self
                /\ gpth.first_entry = end - ENTRY_SECTORS
    /\ \A k \in Written("gpth") : CrcOk(file[k].data)
    /\ (pc = "exit" /\ status = EXIT_SUCCESS /\ use_guid_partition_table) =>
          /\ Cardinality(Written("gpth")) = 2
          /\ Cardinality(Written("gpte")) = 2
          /\ \A h \in Written("gpth") : \A a \in Written("gpte") :
                file[h].data.entry_crc32
                   = gpt_crc32(ArrayWords(file[a].data))

C4_Witness ==
    /\ pc = "exit" /\ status = EXIT_SUCCESS /\ use_guid_partition_table
    /\ Len(out) >= 4
    /\ \E h \in Written("gpth") : file[h].data.self # 1

\* C5 (as claimed): in the legacy table written, the active byte of slot k
\* is 0x80 exactly when k is the configured active slot.
C5_ActiveByAnySlot ==
    ~use_guid_partition_table =>
       \A w \in Written("pte") : \A k \in 1..4 :
          file[w].data[k - 1].active = IF k = active THEN 128 ELSE 0

\* C5 (amended): the active byte of slot k is 0x80 exactly when k is the
\* configured active slot and request k exists and has a size other than 0;
\* so at most one entry is marked bootable.
C5_ActiveByRetainedSlot ==
    ~use_guid_partition_table =>
       \A w \in Written("pte") :
          /\ \A k \in 1..4 :
                file[w].data[k - 1].active
                   = IF k = active /\ (k - 1) \in Retained(part)
                     THEN 128 ELSE 0
          /\ Cardinality({k \in 0..3 : file[w].data[k].active = 128}) <= 1

C5_Witness ==
    /\ ~use_guid_partition_table /\ Written("pte") # {}
    /\ active = 2 /\ part = 3
    /\ parts[0].size # 0 /\ parts[1].size # 0

\* the byte offsets of the writes, in the order of the source
WriteOffsets ==
    IF use_guid_partition_table
    THEN <<440, 446, 510, 512, 1024,
           end * 512 - GPT_ENTRY_SIZE * GPT_ENTRY_NUM, end * 512,
           end * 512 + 511>>
    ELSE <<440, 446, 510>>

\* C6, the part on short writes: a write is issued only after every earlier
\* one completed in full; a short write closes the file and fails; success
\* means every write of the sequence completed in full.
C6_StopAtShortWrite ==
    /\ Len(file) <= Len(WriteOffsets)
    /\ \A k \in 1..(Len(file) - 1) : file[k].full
    /\ (file # <<>> /\ ~file[Len(file)].full) =>
          pc = "exit" /\ fd = "closed" /\ status = EXIT_FAILURE
    /\ (pc = "exit" /\ err = NoErr) =>
          /\ status = EXIT_SUCCESS /\ fd = "closed"
          /\ Len(file) = Len(WriteOffsets)
          /\ \A k \in 1..Len(file) : file[k].full

\* C6 (as claimed): the writes go to the listed offsets, in one order of
\* strictly increasing byte offset, and stop at the first short write.
C6_WriteOrder ==
    /\ C6_StopAtShortWrite
    /\ \A k \in 1..Len(file) : file[k].off = WriteOffsets[k]
    /\ \A k \in 1..(Len(file) - 1) : file[k].off < file[k + 1].off

\* C7 (as claimed): entry 127 has the BIOS-boot type, starts at LBA 34 and
\* ends at the last sector before the backup entry array (last_usable);
\* its start is <= its end.
C7_BiosToBackupArea ==
    HeaderSet =>
       LET e == gpte[GPT_ENTRY_NUM - 1]
       IN  /\ e.type = GPT_PARTITION_BIOS
           /\ e.start = ENTRY_SECTORS + 2
           /\ e.end = gpth.last_usable
           /\ e.start <= e.end

\* C7 (amended): entry 127 has the BIOS-boot type, starts at LBA 34 and ends
\* at the sector before the first planned partition (before the place a
\* first partition would take when none is planned).
C7_BiosToFirstPartition ==
    BiosSet =>
       LET e == gpte[GPT_ENTRY_NUM - 1]
       IN  /\ e.type = GPT_PARTITION_BIOS
           /\ e.start = ENTRY_SECTORS + 2
           /\ (e.end + 1) * 512
                 = IF out = <<>> THEN plan_start(0) * 512 ELSE out[1]

C7_Witness ==
    /\ HeaderSet /\ out # <<>>
    /\ gpte[GPT_ENTRY_NUM - 1].start <= gpte[GPT_ENTRY_NUM - 1].end
    /\ gpte[GPT_ENTRY_NUM - 1].end < gpth.last_usable

\* the case of C8: heads=4, sectors=32, no -l, one request of 64 KB, legacy
C8_Case ==
    /\ PtPlanned
    /\ heads = 4 /\ sectors = 32 /\ kb_align = 0
    /\ part = 1 /\ parts[0].size = 64

\* C8 (as claimed): the planner reports start 16384 and length 65536.
C8_Length65536 == C8_Case => out = <<16384, 65536>>

\* C8 (amended): the planner reports start 16384 and length 114688: the end
\* sector 32 + 128 = 160 is rounded up to 256, and 256 - 32 = 224 sectors.
C8_Length114688 == C8_Case => out = <<16384, 114688>>

C8_Witness == C8_Case /\ pc = "exit" /\ status = EXIT_SUCCESS

\* one pass of either loop has planned request i
Planning == pc \in {"pt_loop", "gpt_loop"} /\ Len(out') = Len(out) + 2

\* C9 (as claimed): under cylinder alignment the end of a planned partition
\* is the smallest multiple of heads*sectors >= start + 2*size_kb; under
\* N-KB alignment the length is exactly 2*size_kb sectors.
C9_EndSmallestMultiple ==
    [][Planning =>
         LET start == out'[Len(out') - 1] \div 512
             len == out'[Len(out')] \div 512
             want == start + 2 * parts[i].size
             cyl == heads * sectors
         IN  IF kb_align = 0
             THEN /\ (start + len) % cyl = 0
                  /\ start + len >= want
                  /\ start + len - want < cyl
             ELSE len = 2 * parts[i].size]_vars

\* C9 (amended): under cylinder alignment the end of a planned partition is
\* the smallest multiple of heads*sectors > start + 2*size_kb, so the length
\* exceeds 2*size_kb by 1 to heads*sectors sectors (by a whole cylinder when
\* the unrounded end lies on a boundary); under N-KB alignment the length is
\* exactly 2*size_kb sectors.
C9_EndNextMultiple ==
    [][Planning =>
         LET start == out'[Len(out') - 1] \div 512
             len == out'[Len(out')] \div 512
             want == start + 2 * parts[i].size
             cyl == heads * sectors
         IN  IF kb_align = 0
             THEN /\ (start + len) % cyl = 0
                  /\ start + len > want
                  /\ start + len - want <= cyl
             ELSE len = 2 * parts[i].size]_vars

\* a first partition whose unrounded end lies on a cylinder boundary
C9_Witness ==
    /\ Entered /\ kb_align = 0 /\ out # <<>>
    /\ (out[1] \div 512 + 2 * parts[0].size) % (heads * sectors) = 0
    /\ out[2] \div 512 = 2 * parts[0].size + heads * sectors

\* C10 (as claimed): first_usable <= last_usable, and every retained
\* partition lies within first_usable..last_usable.
C10_GptLayoutValid ==
    HeaderSet =>
       /\ U64Le(gpth.first_usable, gpth.last_usable)
       /\ \A k \in Retained(part) :
             k # GPT_ENTRY_NUM - 1 =>
                /\ U64Le(gpth.first_usable, gpte[k].start)
                /\ gpte[k].start <= gpte[k].end
                /\ U64Le(gpte[k].end, gpth.last_usable)

====
